---- MODULE Spec2Model ----
(***************************************************************************)
(* Verification model of the attack-test synthesis and sandboxed execution *)
(* subsystem of prophet (agent/src/services).                              *)
(*                                                                         *)
(*   Spec      the Sandbox Runner: runFoundryTests, runDockerFoundry,      *)
(*             runLocalFoundry, collectOutput and runCommand of            *)
(*             simulationService.ts, as seen by the consumer of the chunk  *)
(*             stream.                                                     *)
(*   SpecLive  the Sandbox Runner under the scheduling of the event loop.  *)
(*   SpecPlan  the Plan Validator: validatePlan of patchGenerator.ts,      *)
(*             applied to bounded attack plans and interfaces.             *)
(*   SpecGen   the Interface Extractor and the Test Synthesizer:           *)
(*             parseContractInterface, validatePlan and                    *)
(*             generateSolidityFromPlan applied to bounded sources and     *)
(*             plans.                                                      *)
(*   SpecCmd   one runCommand call in detail: its queue, line buffer,      *)
(*             timer, the events of the child process and the consumer     *)
(*             loop.                                                       *)
(*   SpecNorm  the normalization of a test source before it is written to  *)
(*             the workspace (writeTempProject, rewrite after a fix).      *)
(***************************************************************************)
EXTENDS Integers, Sequences, FiniteSets, TLC

(***************************************************************************)
(* Program constants and bounds                                            *)
(***************************************************************************)

\* const MAX_FIX_ATTEMPTS = 7 (simulationService.ts)
MAX_FIX_ATTEMPTS == 7

\* Largest number of output lines a streamed process emits in the model.
MaxLines == 1

\* An absent optional value (undefined / null) and a present one.
None == <<>>
Some(x) == <<x>>

(***************************************************************************)
(* State of one runFoundryTests request                                    *)
(***************************************************************************)
VARIABLES
  useDocker,     \* useDockerSandbox(): the USE_DOCKER_SANDBOX toggle
  needsOz,       \* detectDependencies found an @openzeppelin import
  pc,            \* position of the generator
  endKind,       \* how the call ended: "normal", "exception", "cancelled"
  attempt,       \* loop counter of the build-fix loop
  workspace,     \* tmpDir: "absent" or "present"
  testSrc,       \* version of the test file in tmpDir/test (0 = initial)
  proc,          \* the process the generator is waiting on, or None
  lines,         \* output lines the current process has emitted
  lingering,     \* processes killed or abandoned whose close has not arrived
  stream,        \* the chunks yielded to the consumer so far
  atYield,       \* the generator is suspended at a yield
  buildResult,   \* result of the last collectOutput
  depIdx,        \* index of the dependency being installed
  compiles,      \* compile invocations started so far
  fixerCalls,    \* aiFixTestCode calls so far
  timedOut,      \* the timeout expired on a compiler/test process
  retried,       \* a fixer call or compile/test start followed a timeout
  sandboxDown,   \* a docker process of this request failed to spawn
  testExit,      \* exit code of the closed test process, or None
  stepLog        \* the build, fix and test steps completed so far, with results

\* State of one validatePlan experiment
VARIABLES
  plan,          \* the AttackPlan object passed to validatePlan (it is mutated)
  iface,         \* the ContractInterface
  vout,          \* outcome of validatePlan(plan, iface)
  vout2,         \* outcome of validatePlan applied to the plan vout returned
  pstep,         \* 0: nothing called, 1: validated once, 2: validated twice,
                 \* 3: the validated plan rendered, 4: the plan rendered as given
  source,        \* the contract source given to parseContractInterface
  genCode        \* the test source generateSolidityFromPlan returned

planVars == <<plan, iface, vout, vout2, pstep, source, genCode>>

\* State of one runCommand call, with its queue and line buffer
VARIABLES
  queue,         \* const queue: StreamChunk[]
  resolveWait,   \* resolveWait is set: the consumer loop awaits waitNext()
  buffer,        \* let buffer: the output received after the last newline
  timer,         \* "none", "armed", "fired" or "cleared"
  child,         \* the spawned process: "running", "spawnfail", "killed",
                 \* "errored" or "closed"
  cpos,          \* position of the consumer loop: "loop", "await", "yield",
                 \* "returned", "abandoned" ("idle": no call)
  yielded,       \* the chunks runCommand has yielded
  emitted        \* the output received from the process, in order of arrival

cmdVars == <<queue, resolveWait, buffer, timer, child, cpos, yielded, emitted>>

\* State of one normalization of a test source
VARIABLES
  testCode,      \* the test source handed in (the request's, or the fixer's)
  testFile       \* the text written to tmpDir/test/<name>.t.sol, or None

normVars == <<testCode, testFile>>

runnerVars == <<useDocker, needsOz, pc, endKind, attempt, workspace, testSrc,
                proc, lines, lingering, stream, atYield, buildResult, depIdx,
                compiles, fixerCalls, timedOut, retried, sandboxDown, testExit,
                stepLog>>

vars == <<runnerVars, planVars, cmdVars, normVars>>

(***************************************************************************)
(* Stream chunks: interface StreamChunk {chunk, done?, exitCode?, error?}  *)
(* kind abstracts the chunk text; ref names the build whose output a       *)
(* "buildout" chunk carries.                                               *)
(***************************************************************************)
Chunk(kind, done, code, err, ref) ==
  [kind |-> kind, done |-> done, exitCode |-> code, error |-> err, ref |-> ref]

Info(kind) == Chunk(kind, FALSE, None, None, 0)

\* runCommand, timer callback: push({chunk: Timeout..., done, exitCode: -1, error: 'timeout'})
TimeoutChunk == Chunk("timeout", TRUE, Some(-1), Some("timeout"), 0)

\* runCommand, proc.on('error'): push({chunk: Failed to run..., done, exitCode: -1, error: err.message})
ErrorChunk == Chunk("spawnerror", TRUE, Some(-1), Some("spawn"), 0)

\* runCommand, proc.on('close'): push({chunk: '\n', done: true, exitCode: code ?? -1})
CloseChunk(code) == Chunk("close", TRUE, Some(code), None, 0)

\* Exit codes a process can close with.
ExitCodes == {0, 1}

\* The kinds of process that compile the workspace, and the test kinds.
CompileKinds == {"build", "buildtest", "fbuild"}
TestKinds == {"test", "ftest"}

\* runCommand arms the timer only when timeoutMs is given: if (timeoutMs && timeoutMs > 0)
HasTimer(kind) == kind # "git"

\* detectDependencies: forge-std always, openzeppelin when imported
NumDeps == IF needsOz THEN 2 ELSE 1

\* for (let attempt = 0; attempt <= MAX_FIX_ATTEMPTS; attempt++)
LoopCond(a) == a <= MAX_FIX_ATTEMPTS

\* CanFix with an off-by-one: the last attempt is handed to the fixer too.
CanFixMut(a) == a <= MAX_FIX_ATTEMPTS
\* if (attempt < MAX_FIX_ATTEMPTS): a failed build is handed to the fixer
CanFix(a) == a < MAX_FIX_ATTEMPTS

\* rmTmpDir placed after the try block instead of in a finally: it runs only
\* when the body returns.
rmTmpDirMut(kind, ws) == IF kind = "normal" THEN "absent" ELSE ws
\* finally { try { fs.rmSync(tmpDir, {recursive, force}) } catch {} }
rmTmpDir(kind, ws) == "absent"

\* Processes of the request that are spawned and not yet closed.
Active == lingering + (IF proc # None /\ proc[1].status = "running" THEN 1 ELSE 0)

\* No validatePlan experiment: the plan variables of a Runner behaviour.
PlanIdle ==
  /\ plan = <<>>
  /\ iface = <<>>
  /\ vout = <<>>
  /\ vout2 = <<>>
  /\ pstep = 0
  /\ source = <<>>
  /\ genCode = <<>>

\* No runCommand experiment and no normalization experiment.
CmdIdle ==
  /\ queue = <<>>
  /\ resolveWait = FALSE
  /\ buffer = <<>>
  /\ timer = "none"
  /\ child = "closed"
  /\ cpos = "idle"
  /\ yielded = <<>>
  /\ emitted = <<>>

NormIdle ==
  /\ testCode = <<>>
  /\ testFile = None

\* A request that has not started, for a given execution mode.
RunnerStart ==
  /\ pc = "start"
  /\ endKind = "none"
  /\ attempt = 0
  /\ workspace = "absent"
  /\ testSrc = 0
  /\ proc = None
  /\ lines = 0
  /\ lingering = 0
  /\ stream = <<>>
  /\ atYield = FALSE
  /\ buildResult = [exitCode |-> 0,
                    output |-> [id |-> 0, last |-> "none", src |-> 0]]
  /\ depIdx = 0
  /\ compiles = 0
  /\ fixerCalls = 0
  /\ timedOut = FALSE
  /\ retried = FALSE
  /\ sandboxDown = FALSE
  /\ testExit = None
  /\ stepLog = <<>>

Init ==
  /\ useDocker \in BOOLEAN
  /\ needsOz \in BOOLEAN
  /\ RunnerStart
  /\ CmdIdle
  /\ NormIdle
  /\ PlanIdle

(***************************************************************************)
(* Helpers shared by the actions                                           *)
(***************************************************************************)

\* yield c
Yield(c) ==
  /\ stream' = Append(stream, c)
  /\ atYield' = TRUE

\* a step that yields nothing
NoYield ==
  /\ stream' = stream
  /\ atYield' = FALSE

\* spawn(cmd, args, {cwd, shell: false}) at the start of runCommand.  The
\* spawn either starts a process or fails (the 'error' event follows).  The
\* process works on the files of tmpDir: src is the version of the test file
\* it finds there.
Spawn(kind) ==
  /\ \E ok \in BOOLEAN :
       proc' = Some([kind |-> kind,
                     status |-> IF ok THEN "running" ELSE "spawnfail",
                     src |-> testSrc])
  /\ lines' = 0
  /\ compiles' = IF kind \in CompileKinds THEN compiles + 1 ELSE compiles
  /\ retried' = (retried \/ (timedOut /\ kind \in CompileKinds \cup TestKinds))

NoSpawn == UNCHANGED <<proc, lines, compiles, retried>>

\* What the generator does after a streamed runCommand has yielded its
\* terminal chunk msg, by the place the command was started from.
AfterStream(kind, msg) ==
  CASE kind = "git" -> "deps"
    [] kind = "install" -> IF msg.exitCode # Some(0) THEN "install_failed" ELSE "deps"
    [] kind = "fbuild" -> "fallback_test"
    [] OTHER -> "finally"

\* A completed step of the build-fix loop and its result: 0 or 1 for a
\* build that succeeded or failed, the exit code of a test, 0 for a fixer call.
Step(op, res) == [op |-> op, res |-> res]

\* buildResult.exitCode === 0, as a build result
BuildRes(code) == IF code = 0 THEN 0 ELSE 1

\* The steps a process has performed when its terminal chunk msg arrives.
\* 'forge build && forge test -vvv' is one process that runs the test only
\* after a build with exit code 0, and exits with the code of the command
\* that ran last.
StepsOfProcess(kind, msg) ==
  LET code == msg.exitCode[1] IN
  CASE kind \in {"build", "fbuild"} -> {<<Step("build", BuildRes(code))>>}
    [] kind \in TestKinds -> {<<Step("test", code)>>}
    [] kind = "buildtest" ->
         IF msg.kind = "spawnerror" THEN {<<Step("build", 1)>>}
         ELSE IF code = 0 THEN {<<Step("build", 0), Step("test", 0)>>}
         ELSE {<<Step("build", 1)>>, <<Step("build", 0), Step("test", code)>>}
    [] OTHER -> {<<>>}

\* The terminal chunk msg of the current runCommand reaches its consumer:
\* collectOutput keeps its exit code and appends its text to the output (id
\* names the build, src the test file version it compiled, last the text of
\* the terminal chunk), a for-await loop of
\* the runner yields it.  killed = 1 when the process was killed and has not closed yet.
Terminal(msg, killed) ==
  LET kind == proc[1].kind IN
  /\ proc' = None
  /\ lingering' = lingering + killed
  /\ \E done \in StepsOfProcess(kind, msg) : stepLog' = stepLog \o done
  /\ IF pc = "building"
       THEN /\ buildResult' = [exitCode |-> msg.exitCode[1],
                                 output |-> [id |-> compiles, last |-> msg.kind,
                                             src |-> proc[1].src]]
            /\ pc' = "built"
            /\ NoYield
            /\ UNCHANGED <<depIdx, endKind, testExit>>
       ELSE /\ Yield(msg)
            /\ pc' = AfterStream(kind, msg)
            /\ depIdx' = IF kind = "install" /\ msg.exitCode = Some(0)
                            THEN depIdx + 1 ELSE depIdx
            /\ endKind' = IF AfterStream(kind, msg) = "finally" THEN "normal" ELSE endKind
            /\ testExit' = IF kind = "test" /\ msg.kind = "close" THEN msg.exitCode ELSE testExit
            /\ UNCHANGED buildResult

(***************************************************************************)
(* runFoundryTests                                                         *)
(***************************************************************************)

\* writeTempProject(tmpDir, ...) succeeds; yield the "Temp project" chunk.
WriteTempProject ==
  /\ pc = "start"
  /\ workspace' = "present"
  /\ Yield(Info("tempproject"))
  /\ pc' = "mode"
  /\ UNCHANGED <<cmdVars, normVars, plan, iface, vout, vout2, pstep, source, genCode, stepLog, useDocker, needsOz, endKind, attempt, testSrc, proc, lines,
                 lingering, buildResult, depIdx, compiles, fixerCalls, timedOut,
                 retried, sandboxDown, testExit>>

\* writeTempProject throws (a mkdirSync or writeFileSync fails), before or
\* after the directory was created.
WriteTempProjectThrows ==
  /\ pc = "start"
  /\ workspace' \in {"absent", "present"}
  /\ NoYield
  /\ pc' = "finally"
  /\ endKind' = "exception"
  /\ UNCHANGED <<cmdVars, normVars, plan, iface, vout, vout2, pstep, source, genCode, stepLog, useDocker, needsOz, attempt, testSrc, proc, lines,
                 lingering, buildResult, depIdx, compiles, fixerCalls, timedOut,
                 retried, sandboxDown, testExit>>

\* if (useDockerSandbox()) yield* runDockerFoundry else yield* runLocalFoundry;
\* each starts by yielding its banner chunk.
ChooseMode ==
  /\ pc = "mode"
  /\ IF useDocker
       THEN Yield(Info("docker")) /\ pc' = "loop"
       ELSE Yield(Info("local")) /\ pc' = "git"
  /\ UNCHANGED <<cmdVars, normVars, plan, iface, vout, vout2, pstep, source, genCode, stepLog, useDocker, needsOz, endKind, attempt, workspace, testSrc, proc,
                 lines, lingering, buildResult, depIdx, compiles, fixerCalls,
                 timedOut, retried, sandboxDown, testExit>>

\* finally: the workspace is removed, on every way out of the try block.
Cleanup ==
  /\ pc = "finally"
  /\ workspace' = rmTmpDir(endKind, workspace)
  /\ pc' = "ended"
  /\ atYield' = FALSE
  /\ UNCHANGED <<cmdVars, normVars, plan, iface, vout, vout2, pstep, source, genCode, stepLog, useDocker, needsOz, endKind, attempt, testSrc, proc, lines,
                 lingering, stream, buildResult, depIdx, compiles, fixerCalls,
                 timedOut, retried, sandboxDown, testExit>>

\* The consumer stops iterating (break in the for-await of the /simulate
\* handler): the generator returns from the yield it is suspended at.  A
\* process it was streaming is left running.
Cancel ==
  /\ atYield
  /\ pc \notin {"finally", "ended"}
  /\ lingering' = Active
  /\ proc' = None
  /\ pc' = "finally"
  /\ endKind' = "cancelled"
  /\ atYield' = FALSE
  /\ UNCHANGED <<cmdVars, normVars, plan, iface, vout, vout2, pstep, source, genCode, stepLog, useDocker, needsOz, attempt, workspace, testSrc, lines, stream,
                 buildResult, depIdx, compiles, fixerCalls, timedOut, retried,
                 sandboxDown, testExit>>

(***************************************************************************)
(* runCommand: events of the process the generator waits on                *)
(***************************************************************************)

\* stdout/stderr data: a line is pushed and yielded (streamed commands).
ProcData ==
  /\ pc = "streaming"
  /\ proc # None /\ proc[1].status = "running"
  /\ lines < MaxLines
  /\ lines' = lines + 1
  /\ Yield(Info("out"))
  /\ UNCHANGED <<cmdVars, normVars, plan, iface, vout, vout2, pstep, source, genCode, stepLog, useDocker, needsOz, pc, endKind, attempt, workspace, testSrc,
                 proc, lingering, buildResult, depIdx, compiles, fixerCalls,
                 timedOut, retried, sandboxDown, testExit>>

\* proc.on('close'): the process closes with an exit code.
ProcClose ==
  /\ pc \in {"streaming", "building"}
  /\ proc # None /\ proc[1].status = "running"
  /\ \E code \in ExitCodes : Terminal(CloseChunk(code), 0)
  /\ UNCHANGED <<cmdVars, normVars, plan, iface, vout, vout2, pstep, source, genCode, useDocker, needsOz, attempt, workspace, testSrc, lines,
                 compiles, fixerCalls, timedOut, retried, sandboxDown>>

\* The timer fires: the timeout chunk is pushed and the process is sent
\* SIGKILL; its close event has not arrived yet.
ProcTimeout ==
  /\ pc \in {"streaming", "building"}
  /\ proc # None /\ proc[1].status = "running"
  /\ HasTimer(proc[1].kind)
  /\ Terminal(TimeoutChunk, 1)
  /\ timedOut' = (timedOut \/ proc[1].kind \in CompileKinds \cup TestKinds)
  /\ UNCHANGED <<cmdVars, normVars, plan, iface, vout, vout2, pstep, source, genCode, useDocker, needsOz, attempt, workspace, testSrc, lines,
                 compiles, fixerCalls, retried, sandboxDown>>

\* proc.on('error'): the process could not be started.
ProcError ==
  /\ pc \in {"streaming", "building"}
  /\ proc # None /\ proc[1].status = "spawnfail"
  /\ Terminal(ErrorChunk, 0)
  /\ sandboxDown' = (sandboxDown \/ useDocker)
  /\ UNCHANGED <<cmdVars, normVars, plan, iface, vout, vout2, pstep, source, genCode, useDocker, needsOz, attempt, workspace, testSrc, lines,
                 compiles, fixerCalls, timedOut, retried>>

\* The close event of a process that was killed on timeout or abandoned.
LingerClose ==
  /\ lingering > 0
  /\ lingering' = lingering - 1
  /\ UNCHANGED <<cmdVars, normVars, plan, iface, vout, vout2, pstep, source, genCode, stepLog, useDocker, needsOz, pc, endKind, attempt, workspace, testSrc,
                 proc, lines, stream, atYield, buildResult, depIdx, compiles,
                 fixerCalls, timedOut, retried, sandboxDown, testExit>>

(***************************************************************************)
(* runLocalFoundry: git init and dependency installs before the loop       *)
(***************************************************************************)

\* for await (const msg of runCommand('git', ['init'], tmpDir)) yield msg;
GitInit ==
  /\ pc = "git"
  /\ Spawn("git")
  /\ NoYield
  /\ pc' = "streaming"
  /\ UNCHANGED <<cmdVars, normVars, plan, iface, vout, vout2, pstep, source, genCode, stepLog, useDocker, needsOz, endKind, attempt, workspace, testSrc,
                 lingering, buildResult, depIdx, fixerCalls, timedOut,
                 sandboxDown, testExit>>

\* for (const depArgs of deps) { yield "Installing ..."; ... }
\* and, after the last dependency, patchRemappings(tmpDir).
NextDep ==
  /\ pc = "deps"
  /\ IF depIdx < NumDeps
       THEN Yield(Info("installing")) /\ pc' = "install_spawn"
       ELSE NoYield /\ pc' = "loop"
  /\ UNCHANGED <<cmdVars, normVars, plan, iface, vout, vout2, pstep, source, genCode, stepLog, useDocker, needsOz, endKind, attempt, workspace, testSrc, proc,
                 lines, lingering, buildResult, depIdx, compiles, fixerCalls,
                 timedOut, retried, sandboxDown, testExit>>

\* runCommand(forgeCmd, ['install', ...depArgs], tmpDir, TIMEOUT_MS)
InstallSpawn ==
  /\ pc = "install_spawn"
  /\ Spawn("install")
  /\ NoYield
  /\ pc' = "streaming"
  /\ UNCHANGED <<cmdVars, normVars, plan, iface, vout, vout2, pstep, source, genCode, stepLog, useDocker, needsOz, endKind, attempt, workspace, testSrc,
                 lingering, buildResult, depIdx, fixerCalls, timedOut,
                 sandboxDown, testExit>>

\* if (msg.done && msg.exitCode !== 0) { yield {forge install failed, done: true,
\* exitCode: msg.exitCode}; return; }
InstallFailed ==
  /\ pc = "install_failed"
  /\ Yield(Chunk("installfailed", TRUE, stream[Len(stream)].exitCode, None, 0))
  /\ pc' = "finally"
  /\ endKind' = "normal"
  /\ UNCHANGED <<cmdVars, normVars, plan, iface, vout, vout2, pstep, source, genCode, stepLog, useDocker, needsOz, attempt, workspace, testSrc, proc, lines,
                 lingering, buildResult, depIdx, compiles, fixerCalls, timedOut,
                 retried, sandboxDown, testExit>>

(***************************************************************************)
(* The build-fix loop of runDockerFoundry and runLocalFoundry              *)
(***************************************************************************)

\* Loop head.  Sandboxed: collectOutput('docker', forge build) starts at once.
\* Local: the "Running forge build" chunk is yielded first.  When the loop
\* condition fails the code after the loop (the fallback run) is reached.
LoopHead ==
  /\ pc = "loop"
  /\ IF ~LoopCond(attempt)
       THEN NoYield /\ NoSpawn /\ pc' = "fallback"
       ELSE IF useDocker
         THEN NoYield /\ Spawn("build") /\ pc' = "building"
         ELSE Yield(Info("runningbuild")) /\ NoSpawn /\ pc' = "build_spawn"
  /\ UNCHANGED <<cmdVars, normVars, plan, iface, vout, vout2, pstep, source, genCode, stepLog, useDocker, needsOz, endKind, attempt, workspace, testSrc,
                 lingering, buildResult, depIdx, fixerCalls, timedOut,
                 sandboxDown, testExit>>

\* Local: collectOutput(forgeCmd, ['build'], tmpDir, TIMEOUT_MS)
BuildSpawn ==
  /\ pc = "build_spawn"
  /\ Spawn("build")
  /\ NoYield
  /\ pc' = "building"
  /\ UNCHANGED <<cmdVars, normVars, plan, iface, vout, vout2, pstep, source, genCode, stepLog, useDocker, needsOz, endKind, attempt, workspace, testSrc,
                 lingering, buildResult, depIdx, fixerCalls, timedOut,
                 sandboxDown, testExit>>

\* The three ways on from a finished build: exit code 0, a failure with
\* attempts left, a failure on the last attempt.
Built ==
  /\ pc = "built"
  /\ IF buildResult.exitCode = 0
       THEN Yield(Info("buildok")) /\ pc' = "test_spawn"
       ELSE IF CanFix(attempt)
         THEN Yield(Info("buildfailed")) /\ pc' = "fix"
         ELSE Yield(Chunk("buildout", FALSE, None, None, buildResult.output.id))
              /\ pc' = "exhausted"
  /\ UNCHANGED <<cmdVars, normVars, plan, iface, vout, vout2, pstep, source, genCode, stepLog, useDocker, needsOz, endKind, attempt, workspace, testSrc, proc,
                 lines, lingering, buildResult, depIdx, compiles, fixerCalls,
                 timedOut, retried, sandboxDown, testExit>>

\* Exhausted with a terminal chunk that does not carry the build's exit code.
ExhaustedMut ==
  /\ pc = "exhausted"
  /\ Yield(Chunk("builddone", TRUE, Some(0), None, 0))
  /\ pc' = "finally"
  /\ endKind' = "normal"
  /\ UNCHANGED <<cmdVars, normVars, plan, iface, vout, vout2, pstep, source, genCode, stepLog, useDocker, needsOz, attempt, workspace, testSrc, proc, lines,
                 lingering, buildResult, depIdx, compiles, fixerCalls, timedOut,
                 retried, sandboxDown, testExit>>
\* yield { chunk: '\n', done: true, exitCode: buildResult.exitCode }; return;
Exhausted ==
  /\ pc = "exhausted"
  /\ Yield(Chunk("builddone", TRUE, Some(buildResult.exitCode), None, 0))
  /\ pc' = "finally"
  /\ endKind' = "normal"
  /\ UNCHANGED <<cmdVars, normVars, plan, iface, vout, vout2, pstep, source, genCode, stepLog, useDocker, needsOz, attempt, workspace, testSrc, proc, lines,
                 lingering, buildResult, depIdx, compiles, fixerCalls, timedOut,
                 retried, sandboxDown, testExit>>

\* runCommand(..., forge test -vvv, ...) after "Build OK"
TestSpawn ==
  /\ pc = "test_spawn"
  /\ Spawn("test")
  /\ NoYield
  /\ pc' = "streaming"
  /\ UNCHANGED <<cmdVars, normVars, plan, iface, vout, vout2, pstep, source, genCode, stepLog, useDocker, needsOz, endKind, attempt, workspace, testSrc,
                 lingering, buildResult, depIdx, fixerCalls, timedOut,
                 sandboxDown, testExit>>

\* const currentTest = fs.readFileSync(testPath); aiFixTestCode(currentTest,
\* buildResult.output, source): what a fixer call is given.
fixerArgs == [testCode |-> testSrc, compilerErrors |-> buildResult.output]

\* FixReplaced without fs.writeFileSync(testPath, processed): the replacement
\* is dropped and the next attempt compiles the old test file.
FixReplacedMut ==
  /\ pc = "fix"
  /\ fixerCalls' = fixerCalls + 1
  /\ stepLog' = Append(stepLog, Step("fix_replaced", 0))
  /\ retried' = (retried \/ timedOut)
  /\ testSrc' = testSrc
  /\ attempt' = attempt + 1
  /\ NoYield
  /\ pc' = "loop"
  /\ UNCHANGED <<cmdVars, normVars, plan, iface, vout, vout2, pstep, source, genCode, useDocker, needsOz, endKind, workspace, proc, lines, lingering,
                 buildResult, depIdx, compiles, timedOut, sandboxDown, testExit>>
\* aiFixTestCode returns a replacement: it is normalized and written to the
\* test file; continue with attempt + 1.
FixReplaced ==
  /\ pc = "fix"
  /\ fixerCalls' = fixerCalls + 1
  /\ stepLog' = Append(stepLog, Step("fix_replaced", 0))
  /\ retried' = (retried \/ timedOut)
  /\ testSrc' = testSrc + 1
  /\ attempt' = attempt + 1
  /\ NoYield
  /\ pc' = "loop"
  /\ UNCHANGED <<cmdVars, normVars, plan, iface, vout, vout2, pstep, source, genCode, useDocker, needsOz, endKind, workspace, proc, lines, lingering,
                 buildResult, depIdx, compiles, timedOut, sandboxDown, testExit>>

\* aiFixTestCode returns null (0G unavailable, call failed, or no Solidity in
\* the reply): yield "AI fix unavailable" and break out of the loop.
FixDeclined ==
  /\ pc = "fix"
  /\ fixerCalls' = fixerCalls + 1
  /\ stepLog' = Append(stepLog, Step("fix_declined", 0))
  /\ retried' = (retried \/ timedOut)
  /\ Yield(Info("fixunavailable"))
  /\ pc' = "fallback"
  /\ UNCHANGED <<cmdVars, normVars, plan, iface, vout, vout2, pstep, source, genCode, useDocker, needsOz, endKind, attempt, workspace, testSrc, proc,
                 lines, lingering, buildResult, depIdx, compiles, timedOut,
                 sandboxDown, testExit>>

\* fs.readFileSync / fs.writeFileSync of the test file throws.
FixThrows ==
  /\ pc = "fix"
  /\ NoYield
  /\ pc' = "finally"
  /\ endKind' = "exception"
  /\ UNCHANGED <<cmdVars, normVars, plan, iface, vout, vout2, pstep, source, genCode, stepLog, useDocker, needsOz, attempt, workspace, testSrc, proc, lines,
                 lingering, buildResult, depIdx, compiles, fixerCalls, timedOut,
                 retried, sandboxDown, testExit>>

\* The code after the loop.  Sandboxed: one process 'forge build && forge
\* test -vvv'.  Local: runCommand(forge build), then runCommand(forge test).
Fallback ==
  /\ pc = "fallback"
  /\ Spawn(IF useDocker THEN "buildtest" ELSE "fbuild")
  /\ NoYield
  /\ pc' = "streaming"
  /\ UNCHANGED <<cmdVars, normVars, plan, iface, vout, vout2, pstep, source, genCode, stepLog, useDocker, needsOz, endKind, attempt, workspace, testSrc,
                 lingering, buildResult, depIdx, fixerCalls, timedOut,
                 sandboxDown, testExit>>

\* Local fallback, second command: runCommand(forgeCmd, ['test', '-vvv'], ...)
FallbackTest ==
  /\ pc = "fallback_test"
  /\ Spawn("ftest")
  /\ NoYield
  /\ pc' = "streaming"
  /\ UNCHANGED <<cmdVars, normVars, plan, iface, vout, vout2, pstep, source, genCode, stepLog, useDocker, needsOz, endKind, attempt, workspace, testSrc,
                 lingering, buildResult, depIdx, fixerCalls, timedOut,
                 sandboxDown, testExit>>

Next ==
  \/ WriteTempProject \/ WriteTempProjectThrows \/ ChooseMode \/ Cleanup \/ Cancel
  \/ ProcData \/ ProcClose \/ ProcTimeout \/ ProcError \/ LingerClose
  \/ GitInit \/ NextDep \/ InstallSpawn \/ InstallFailed
  \/ LoopHead \/ BuildSpawn \/ Built \/ Exhausted \/ TestSpawn
  \/ FixReplaced \/ FixDeclined \/ FixThrows \/ Fallback \/ FallbackTest

Spec == Init /\ [][Next]_vars

\* The steps that happen whenever they can: the generator's own steps (the
\* consumer keeps pulling), the timer callback of runCommand and the 'error'
\* event of a failed spawn.  That a spawned process writes output or closes
\* is left to the process, and the consumer need not stop.
Progress ==
  \/ WriteTempProject \/ WriteTempProjectThrows \/ ChooseMode \/ Cleanup
  \/ ProcTimeout \/ ProcError
  \/ GitInit \/ NextDep \/ InstallSpawn \/ InstallFailed
  \/ LoopHead \/ BuildSpawn \/ Built \/ Exhausted \/ TestSpawn
  \/ FixReplaced \/ FixDeclined \/ FixThrows \/ Fallback \/ FallbackTest

\* The Runner under the scheduling of the event loop.
SpecLive == Init /\ [][Next]_vars /\ WF_vars(Progress)

(***************************************************************************)
(* Properties of the Sandbox Runner                                        *)
(***************************************************************************)

\* Indices of the chunks of the stream with done = true / of a given kind.
DoneIdx == {i \in 1..Len(stream) : stream[i].done}
KindIdx(kind) == {i \in 1..Len(stream) : stream[i].kind = kind}
EndedNormally == pc = "ended" /\ endKind = "normal"

\* C1: the chunk sequence of a call contains exactly one chunk with
\* done = true and no chunk is yielded after it: never more than one, none
\* but the last, and exactly one once the call has returned.
C1_ExactlyOneTerminalChunk ==
  /\ Cardinality(DoneIdx) <= 1
  /\ \A i \in DoneIdx : i = Len(stream)
  /\ EndedNormally => Cardinality(DoneIdx) = 1

C3_CompileBound ==
  /\ compiles <= MAX_FIX_ATTEMPTS + 1
  /\ attempt <= MAX_FIX_ATTEMPTS

C3_Witness ==
  /\ EndedNormally
  /\ compiles = MAX_FIX_ATTEMPTS + 1
  /\ KindIdx("fixunavailable") # {}

\* C7: once the timeout expired on a compiler/test process no fixer call and
\* no further compile or test process follows, and the request ends with the
\* terminal chunk that carries the timeout error tag.
C7_TimeoutNeverRetried ==
  /\ ~retried
  /\ (timedOut /\ EndedNormally) =>
        /\ stream[Len(stream)].done
        /\ stream[Len(stream)].error = Some("timeout")

\* C8: at most one process of the request is spawned and not yet closed.
C8_AtMostOneActive == Active <= 1

\* C9: when the builds 0..k-1 failed, each followed by a replacement from
\* the fixer, and build k succeeded, the stream holds exactly k "build
\* failed" chunks, then exactly one "Build OK" chunk, and ends with its only
\* done = true chunk, which carries the exit code of the test process.
C9_BuildThenTestStream ==
  (EndedNormally /\ compiles = attempt + 1 /\ fixerCalls = attempt
     /\ buildResult.output.id = compiles /\ buildResult.exitCode = 0) =>
    /\ Cardinality(KindIdx("buildfailed")) = attempt
    /\ Cardinality(KindIdx("buildok")) = 1
    /\ \A i \in KindIdx("buildfailed") : \A j \in KindIdx("buildok") : i < j
    /\ DoneIdx = {Len(stream)}
    /\ testExit # None => stream[Len(stream)].exitCode = testExit

\* C10: when a sandboxed process cannot be started the request switches to
\* local execution: the failed start is never handed to the fixer as a
\* failed build, and a request that met it has run locally when it returns.
C10_FallsBackToLocal ==
  /\ ~(useDocker /\ pc = "fix" /\ buildResult.output.last = "spawnerror")
  /\ (sandboxDown /\ EndedNormally) => KindIdx("local") # {}

\* C11: every request comes to its end, so that its consumer never waits
\* forever, and a request that returned ends its stream with a terminal
\* chunk: whatever process it started, a process that fails to spawn or
\* does not exit by itself included.
C11_EventuallyTerminalChunk ==
  <>(pc = "ended" /\ (endKind = "normal" => stream[Len(stream)].done))

\* C15: once the fixer has declined (or is unavailable) after a failed
\* build, no further compile or test process is started, and the request
\* ends reporting the output of that failed build, unmodified, followed by
\* the terminal chunk with that build's exit code.
C15_DeclineEndsWithBuildOutput ==
  KindIdx("fixunavailable") # {} =>
    /\ compiles = buildResult.output.id
    /\ proc = None
    /\ EndedNormally =>
         /\ \E j \in KindIdx("buildout") : stream[j].ref = buildResult.output.id
         /\ stream[Len(stream)].done
         /\ stream[Len(stream)].exitCode = Some(buildResult.exitCode)

\* The step sequences of runDockerFoundry from attempt a on: a build; after
\* a success the test and the end; after a failure with attempts left the
\* fixer, and then either the next attempt or, when it declined, the
\* process 'forge build && forge test -vvv' and the end; after a failure on
\* the last attempt the end.
RECURSIVE dockerRun(_, _)
dockerRun(T, a) ==
  /\ T # <<>>
  /\ T[1].op = "build"
  /\ IF T[1].res = 0
       THEN Len(T) = 2 /\ T[2].op = "test"
       ELSE IF CanFix(a)
         THEN /\ Len(T) >= 2
              /\ \/ /\ T[2].op = "fix_replaced"
                    /\ dockerRun(SubSeq(T, 3, Len(T)), a + 1)
                 \/ /\ T[2].op = "fix_declined"
                    /\ Len(T) >= 3
                    /\ T[3].op = "build"
                    /\ IF T[3].res = 0
                         THEN Len(T) = 4 /\ T[4].op = "test"
                         ELSE Len(T) = 3
         ELSE Len(T) = 1

\* C19: a request that has run the build-fix loop and returned, in local
\* or in sandboxed mode, has performed a sequence of build, fix and test
\* steps that runDockerFoundry performs for these build results, fixer
\* replies and test result, and has ended with the exit code of its last
\* step: the test's, or a failure code after a failed build.
C19_LocalRunsSameMachine ==
  (EndedNormally /\ stepLog # <<>>) =>
    /\ dockerRun(stepLog, 0)
    /\ stream[Len(stream)].done
    /\ IF stepLog[Len(stepLog)].op = "test"
         THEN stream[Len(stream)].exitCode = Some(stepLog[Len(stepLog)].res)
         ELSE stream[Len(stream)].exitCode # Some(0)

\* Builds 0..MAX_FIX_ATTEMPTS have all failed and the fixer returned a
\* replacement after each of the first MAX_FIX_ATTEMPTS failures.
AllBuildsFailed ==
  /\ attempt = MAX_FIX_ATTEMPTS
  /\ Len(stepLog) = 2 * MAX_FIX_ATTEMPTS + 1
  /\ stepLog[Len(stepLog)] = Step("build", 1)

\* C20: when builds 0..MAX have all failed, each of the first MAX followed
\* by a replacement from the fixer, no process and no fixer call is started
\* any more, and the request that returns has yielded the output of the
\* last build and then, as its last chunk, the terminal chunk with that
\* build's exit code.
C20_ExhaustedEndsWithLastBuild ==
  AllBuildsFailed =>
    /\ pc \in {"built", "exhausted", "finally", "ended"}
    /\ proc = None
    /\ fixerCalls = MAX_FIX_ATTEMPTS
    /\ compiles = MAX_FIX_ATTEMPTS + 1
    /\ KindIdx("buildok") = {}
    /\ EndedNormally =>
         /\ buildResult.output.id = compiles
         /\ buildResult.exitCode # 0
         /\ Len(stream) >= 2
         /\ stream[Len(stream) - 1] = Chunk("buildout", FALSE, None, None, compiles)
         /\ stream[Len(stream)] = Chunk("builddone", TRUE, Some(buildResult.exitCode), None, 0)

\* A local request has returned after its last build, which timed out.
C20_Witness ==
  /\ AllBuildsFailed
  /\ EndedNormally
  /\ ~useDocker
  /\ buildResult.exitCode = -1
  /\ stream[Len(stream)].kind = "builddone"

\* C21: a test process is started only directly after a compile that exited
\* with code 0: every test step of a request directly follows a successful
\* build step, and a test process that is running was started after one.
C21_TestOnlyAfterGoodBuild ==
  /\ \A i \in 1..Len(stepLog) :
       stepLog[i].op = "test" => (i > 1 /\ stepLog[i - 1] = Step("build", 0))
  /\ (proc # None /\ proc[1].kind \in TestKinds /\ proc[1].status = "running") =>
       (stepLog # <<>> /\ stepLog[Len(stepLog)] = Step("build", 0))

\* The fixer calls among the steps of the request.
FixIdx == {i \in 1..Len(stepLog) : stepLog[i].op \in {"fix_replaced", "fix_declined"}}

\* C22: the fixer is called only directly after a failed build with an
\* attempt index below MAX_FIX_ATTEMPTS, at most MAX_FIX_ATTEMPTS times per
\* request; a call is given the test source which that build compiled and
\* the output of that build; and a build compiles the test file as the
\* replacements so far have left it: the k-th replacement is what the next
\* build compiles.
C22_FixerAfterFailedBuild ==
  /\ fixerCalls <= MAX_FIX_ATTEMPTS
  /\ Cardinality(FixIdx) = fixerCalls
  /\ \A i \in FixIdx : i > 1 /\ stepLog[i - 1] = Step("build", 1)
  /\ pc = "fix" =>
       /\ attempt < MAX_FIX_ATTEMPTS
       /\ stepLog[Len(stepLog)] = Step("build", 1)
       /\ buildResult.exitCode # 0
       /\ fixerArgs.compilerErrors.id = compiles
       /\ fixerArgs.compilerErrors.src = fixerArgs.testCode
  /\ testSrc = Cardinality({i \in FixIdx : stepLog[i].op = "fix_replaced"})
  /\ (proc # None /\ proc[1].kind \in CompileKinds) => proc[1].src = testSrc

\* The build that follows the last possible fixer call is running on the
\* replacement that call returned.
C22_Witness ==
  /\ fixerCalls = MAX_FIX_ATTEMPTS
  /\ proc # None /\ proc[1].kind = "build" /\ proc[1].status = "running"
  /\ proc[1].src = MAX_FIX_ATTEMPTS
  /\ stepLog[Len(stepLog)].op = "fix_replaced"

\* C30: the workspace directory is never removed while a process the
\* request has spawned is still running: every step that removes it starts
\* in a state where all the spawned processes have closed.
C30_RemovedOnlyAfterAllClosed ==
  [][(workspace = "present" /\ workspace' = "absent") => Active = 0]_vars

(***************************************************************************)
(* runCommand in detail: the queue, the line buffer, the timer and the     *)
(* events of the child process, one call at a time.  Text is a sequence of *)
(* characters; the text of a message of runCommand is one token.           *)
(***************************************************************************)

\* Largest number of characters a process writes to stdout and stderr.
MaxOutput == 3

\* push({ chunk: line + '\n' }): a chunk that carries process output
Line(text) == [chunk |-> text, done |-> FALSE, exitCode |-> None, error |-> None]

\* The three chunks with done: true that runCommand pushes.
cmdTimeout ==
  [chunk |-> <<"[prophet] Timeout">>, done |-> TRUE, exitCode |-> Some(-1),
   error |-> Some("timeout")]
cmdError ==
  [chunk |-> <<"[prophet] Failed to run">>, done |-> TRUE, exitCode |-> Some(-1),
   error |-> Some("spawn")]
cmdClose(c) ==
  [chunk |-> <<"\n">>, done |-> TRUE, exitCode |-> Some(c), error |-> None]

\* The texts of a 'data' event: the characters written to stdout are "o",
\* those written to stderr are "e".
DataTexts(c) == {<<c>>, <<c, "\n">>, <<"\n", c>>}
DataEvents == DataTexts("o") \cup DataTexts("e")

\* str.split('\n'): the pieces between the newlines of a text
RECURSIVE split(_)
split(text) ==
  IF \A n \in DOMAIN text : text[n] # "\n" THEN <<text>>
  ELSE LET k == CHOOSE n \in DOMAIN text :
                  text[n] = "\n" /\ \A m \in 1..(n - 1) : text[m] # "\n"
       IN <<SubSeq(text, 1, k - 1)>> \o split(SubSeq(text, k + 1, Len(text)))

\* flush(str): buffer += str; lines = buffer.split('\n'); buffer = lines.pop();
\* the chunks it pushes and the buffer it leaves.
flush(buf, str) ==
  LET pieces == split(buf \o str) IN
  [pushed |-> [n \in 1..(Len(pieces) - 1) |-> Line(pieces[n] \o <<"\n">>)],
   buffer |-> pieces[Len(pieces)]]

\* push(chunk) for each chunk of cs: queue.push(chunk), and a consumer that
\* awaits waitNext() is resumed.
push(cs) ==
  /\ queue' = queue \o cs
  /\ IF cs # <<>> /\ resolveWait
       THEN resolveWait' = FALSE /\ cpos' = "loop"
       ELSE UNCHANGED <<resolveWait, cpos>>

\* A runCommand call that has spawned its process, with or without timeoutMs.
InitCmd ==
  /\ queue = <<>>
  /\ resolveWait = FALSE
  /\ buffer = <<>>
  /\ timer \in {"none", "armed"}
  /\ child \in {"running", "spawnfail"}
  /\ cpos = "loop"
  /\ yielded = <<>>
  /\ emitted = <<>>
  /\ useDocker = TRUE
  /\ needsOz = FALSE
  /\ RunnerStart
  /\ PlanIdle
  /\ NormIdle

\* if (timer) clearTimeout(timer)
clearTimeout(t) == IF t = "armed" THEN "cleared" ELSE t

\* proc.stdout.on('data') / proc.stderr.on('data'): flush(d.toString()).
\* Data that was in the pipes can still arrive after the kill.
CmdData ==
  /\ child \in {"running", "killed"}
  /\ \E d \in DataEvents :
       /\ Len(emitted) + Len(d) <= MaxOutput
       /\ emitted' = emitted \o d
       /\ buffer' = flush(buffer, d).buffer
       /\ push(flush(buffer, d).pushed)
  /\ UNCHANGED <<timer, child, yielded, runnerVars, planVars, normVars>>

\* The timer callback: push the timeout chunk, proc.kill('SIGKILL').
CmdTimer ==
  /\ timer = "armed"
  /\ child = "running"
  /\ timer' = "fired"
  /\ child' = "killed"
  /\ push(<<cmdTimeout>>)
  /\ UNCHANGED <<buffer, yielded, emitted, runnerVars, planVars, normVars>>

\* proc.on('error'): the process could not be spawned.
CmdError ==
  /\ child = "spawnfail"
  /\ timer' = clearTimeout(timer)
  /\ child' = "errored"
  /\ push(<<cmdError>>)
  /\ UNCHANGED <<buffer, yielded, emitted, runnerVars, planVars, normVars>>

\* proc.on('close'): the process has ended and its streams are closed; it
\* also follows the 'error' of a failed spawn.  code is null after a kill
\* and negative after a failed spawn.
CmdClose ==
  /\ child \in {"running", "killed", "errored"}
  /\ timer' = clearTimeout(timer)
  /\ child' = "closed"
  /\ \E c \in (IF child = "running" THEN ExitCodes ELSE {-1}) :
       push((IF Len(buffer) > 0 THEN <<Line(buffer \o <<"\n">>)>> ELSE <<>>)
            \o <<cmdClose(c)>>)
  /\ UNCHANGED <<buffer, yielded, emitted, runnerVars, planVars, normVars>>

\* if (queue.length === 0) await waitNext();
CmdAwait ==
  /\ cpos = "loop"
  /\ queue = <<>>
  /\ resolveWait' = TRUE
  /\ cpos' = "await"
  /\ UNCHANGED <<queue, buffer, timer, child, yielded, emitted, runnerVars,
                 planVars, normVars>>

\* const next = queue.shift(); yield next;
CmdShift ==
  /\ cpos = "loop"
  /\ queue # <<>>
  /\ queue' = Tail(queue)
  /\ yielded' = Append(yielded, Head(queue))
  /\ cpos' = "yield"
  /\ UNCHANGED <<resolveWait, buffer, timer, child, emitted, runnerVars,
                 planVars, normVars>>

\* CmdResume without 'if (next.done) break': the loop goes on after a
\* terminal chunk.
CmdResumeMut ==
  /\ cpos = "yield"
  /\ cpos' = "loop"
  /\ UNCHANGED <<queue, resolveWait, buffer, timer, child, yielded, emitted,
                 runnerVars, planVars, normVars>>
\* The consumer asks for the next chunk: if (next.done) break;
CmdResume ==
  /\ cpos = "yield"
  /\ cpos' = IF yielded[Len(yielded)].done THEN "returned" ELSE "loop"
  /\ UNCHANGED <<queue, resolveWait, buffer, timer, child, yielded, emitted,
                 runnerVars, planVars, normVars>>

\* The consumer stops iterating: the generator is returned at its yield.
CmdAbandon ==
  /\ cpos = "yield"
  /\ ~yielded[Len(yielded)].done
  /\ cpos' = "abandoned"
  /\ UNCHANGED <<queue, resolveWait, buffer, timer, child, yielded, emitted,
                 runnerVars, planVars, normVars>>

NextCmd ==
  \/ CmdData \/ CmdTimer \/ CmdError \/ CmdClose
  \/ CmdAwait \/ CmdShift \/ CmdResume \/ CmdAbandon

SpecCmd == InitCmd /\ [][NextCmd]_vars

\* The concatenation of a sequence of texts.
RECURSIVE Concat(_)
Concat(texts) == IF texts = <<>> THEN <<>> ELSE Head(texts) \o Concat(Tail(texts))

\* The yielded chunks that carry process output, and their texts in a row.
OutputIdx == {n \in 1..Len(yielded) : ~yielded[n].done}
YieldedOutput ==
  Concat([n \in 1..Len(yielded) |->
            IF yielded[n].done THEN <<>> ELSE yielded[n].chunk])

\* The output with its last line completed by a newline.
Completed(text) ==
  IF text = <<>> \/ text[Len(text)] = "\n" THEN text ELSE text \o <<"\n">>

IsPrefix(a, b) == Len(a) <= Len(b) /\ SubSeq(b, 1, Len(a)) = a

\* C25: output is forwarded line by line: every chunk that carries output
\* is one line of the output received, ending at its newline; the chunks in
\* a row are the output received, up to a line boundary; and once the
\* process has closed and runCommand has returned, all of its output has
\* been yielded, the trailing partial line once, completed by a newline.
C25_LineBuffered ==
  /\ \A n \in OutputIdx :
       LET text == yielded[n].chunk IN
       /\ Len(text) >= 1
       /\ \A m \in DOMAIN text : (text[m] = "\n") <=> (m = Len(text))
  /\ IsPrefix(YieldedOutput, Completed(emitted))
  /\ ~IsPrefix(YieldedOutput, emitted) => child = "closed"
  /\ (cpos = "returned" /\ child = "closed") =>
       YieldedOutput = Completed(emitted)

\* The yielded chunks with done = true.
DoneYielded == {n \in 1..Len(yielded) : yielded[n].done}

\* C28: runCommand yields at most one chunk with done = true, nothing
\* after it, and exactly one when its loop has ended, whatever the order of
\* the data, error, close and timer events; a terminal chunk that is pushed
\* after the first one stays in the queue.
C28_OneTerminalChunkLast ==
  /\ Cardinality(DoneYielded) <= 1
  /\ \A n \in DoneYielded : n = Len(yielded)
  /\ cpos = "returned" =>
       /\ Cardinality(DoneYielded) = 1
       /\ \A n \in DOMAIN queue : queue[n].done => yielded[Len(yielded)].done
  /\ (cpos \in {"loop", "await"} /\ yielded # <<>>) => ~yielded[Len(yielded)].done

\* The timer fired, the timeout chunk was yielded after a line of output and
\* the loop ended; the close chunk of the killed process is in the queue.
C28_Witness ==
  /\ cpos = "returned"
  /\ Len(yielded) >= 2
  /\ yielded[Len(yielded)] = cmdTimeout
  /\ \E n \in DOMAIN queue : queue[n].done /\ queue[n].exitCode = Some(-1)

(***************************************************************************)
(* Plan Validator: validatePlan (patchGenerator.ts)                        *)
(*                                                                         *)
(* The plan is untrusted JSON.  A field that validatePlan dereferences is  *)
(* a JavaScript value: present with the expected type (JsOk), undefined    *)
(* (JsUndef), or a truthy value of another type (JsBad).  Strings that the *)
(* code takes apart are sequences: a test name is a sequence of            *)
(* characters, an assertion expression a sequence of tokens.               *)
(***************************************************************************)

\* Bounds of the plans and interfaces TLC enumerates: the size of a plan
\* (its tests plus all their steps and assertions) and the number of
\* functions of an interface.
MaxPlanSize == 3
MaxFns == 2

JsOk(v) == [k |-> "ok", v |-> v]
JsUndef == [k |-> "undef", v |-> <<>>]
JsBad == [k |-> "bad", v |-> <<>>]

\* JavaScript truthiness of a string-valued field: undefined and '' are falsy.
Truthy(x) == x.k = "bad" \/ (x.k = "ok" /\ x.v # <<>> /\ x.v # <<"">>)

SeqsUpTo(S, n) == UNION {[1..k -> S] : k \in 0..n}

\* const validFnNames = new Set(iface.functions.map((f) => f.name))
validFnNames(i) == {i.functions[n].name : n \in DOMAIN i.functions}

\* const fnMap = new Map(iface.functions.map((f) => [f.name, f])): of several
\* functions of one name the Map keeps the last.
fnMap(i, name) ==
  LET idx == CHOOSE n \in DOMAIN i.functions :
               /\ i.functions[n].name = name
               /\ \A m \in DOMAIN i.functions : i.functions[m].name = name => m <= n
  IN i.functions[idx]

\* validCall that accepts every step of attacker_contract, whatever it calls.
validCallMut(step, i) ==
  IF step.as = "attacker_contract" THEN <<step>>
  ELSE IF step.call \notin validFnNames(i) THEN <<>>
  ELSE IF Truthy(step.value) /\ fnMap(i, step.call).mutability # "payable"
    THEN <<[step EXCEPT !.value = JsUndef]>>
    ELSE <<step>>
\* validCall(step): the step, the step without its value, or null; as the
\* sequence of the steps that survive map(validCall).filter(Boolean).
validCall(step, i) ==
  IF step.as = "attacker_contract" /\ step.call = "attack" THEN <<step>>
  ELSE IF step.call \notin validFnNames(i) THEN <<>>
  ELSE IF Truthy(step.value) /\ fnMap(i, step.call).mutability # "payable"
    THEN <<[step EXCEPT !.value = JsUndef]>>
    ELSE <<step>>

RECURSIVE validCalls(_, _)
validCalls(steps, i) ==
  IF steps = <<>> THEN <<>>
  ELSE validCall(Head(steps), i) \o validCalls(Tail(steps), i)

\* expr.matchAll(/target\.(\w+)\s*\(/g): the identifiers id such that the
\* token "target." is followed by id, optional blanks and "(".
Idents == {"f", "g", "h", "balance"}
memberCalls(expr) ==
  {expr[n + 1] : n \in {m \in 1..(Len(expr) - 2) :
      /\ expr[m] = "target."
      /\ expr[m + 1] \in Idents
      /\ \E j \in (m + 2)..Len(expr) :
           /\ expr[j] = "("
           /\ \A b \in (m + 2)..(j - 1) : expr[b] = " "}}

\* assertionExprValid(expr)
assertionExprValid(expr, i) == memberCalls(expr) \subseteq validFnNames(i)

\* validAssertion(a) throws a TypeError when a.left is no string
\* (expr.matchAll is not a function), or when a.left passes and a.right is a
\* truthy value that is no string.
validAssertionThrows(a, i) ==
  \/ a.left.k # "ok"
  \/ (assertionExprValid(a.left.v, i) /\ a.right.k = "bad")

\* validAssertion that scans the left operand only.
validAssertionMut(a, i) == assertionExprValid(a.left.v, i)
\* validAssertion(a) = assertionExprValid(a.left) && (!a.right || assertionExprValid(a.right))
validAssertion(a, i) ==
  /\ assertionExprValid(a.left.v, i)
  /\ (~Truthy(a.right) \/ assertionExprValid(a.right.v, i))

RECURSIVE validAssertions(_, _)
validAssertions(as, i) ==
  IF as = <<>> THEN <<>>
  ELSE (IF validAssertion(Head(as), i) THEN <<Head(as)>> ELSE <<>>)
       \o validAssertions(Tail(as), i)

\* String.prototype.toUpperCase on one character.
toUpperCase(c) ==
  CASE c = "a" -> "A" [] c = "b" -> "B" [] c = "t" -> "T"
    [] c = "e" -> "E" [] c = "s" -> "S" [] OTHER -> c

TestPrefix == <<"t", "e", "s", "t">>
startsWithTest(n) == Len(n) >= 4 /\ SubSeq(n, 1, 4) = TestPrefix

\* normalizeName without the startsWith test: the prefix is always added.
normalizeNameMut(n) ==
  IF n = <<>> THEN TestPrefix
  ELSE TestPrefix \o <<toUpperCase(Head(n))>> \o Tail(n)
\* name: t.name.startsWith('test') ? t.name
\*       : `test${t.name.charAt(0).toUpperCase()}${t.name.slice(1)}`
normalizeName(n) ==
  IF startsWithTest(n) THEN n
  ELSE IF n = <<>> THEN TestPrefix
  ELSE TestPrefix \o <<toUpperCase(Head(n))>> \o Tail(n)

\* The callback of plan.tests.map throws a TypeError when t.name is no
\* string, when t.setup, t.attack or t.assertions is no array, or when
\* validAssertion throws.
testThrows(t, i) ==
  \/ t.name.k # "ok"
  \/ t.setup.k # "ok"
  \/ t.attack.k # "ok"
  \/ t.assertions.k # "ok"
  \/ \E n \in DOMAIN t.assertions.v : validAssertionThrows(t.assertions.v[n], i)

\* ({...t, name, setup, attack, assertions})
validTest(t, i) ==
  [t EXCEPT !.name = JsOk(normalizeName(t.name.v)),
            !.setup = JsOk(validCalls(t.setup.v, i)),
            !.attack = JsOk(validCalls(t.attack.v, i)),
            !.assertions = JsOk(validAssertions(t.assertions.v, i))]

\* keepTest that looks at the attack list only.
keepTestMut(t) == Len(t.attack.v) > 0
\* (t) => t.attack.length > 0 || t.setup.length > 0
keepTest(t) == Len(t.attack.v) > 0 \/ Len(t.setup.v) > 0

\* .map(...).filter(keepTest)
RECURSIVE validTests(_, _)
validTests(ts, i) ==
  IF ts = <<>> THEN <<>>
  ELSE LET t == validTest(Head(ts), i)
       IN (IF keepTest(t) THEN <<t>> ELSE <<>>) \o validTests(Tail(ts), i)

\* validatePlan(plan, iface).  raised: a TypeError was thrown; out: the plan
\* returned; inp: the argument object after the call (the code assigns to
\* plan.needsAttacker and plan.attackerReentersFunction).
validatePlan(p, i) ==
  IF \/ p.tests.k # "ok"
     \/ \E n \in DOMAIN p.tests.v : testThrows(p.tests.v[n], i)
  THEN [raised |-> TRUE, out |-> <<>>, inp |-> p]
  ELSE
    LET tests == validTests(p.tests.v, i)
        clear == /\ Truthy(p.attackerReentersFunction)
                 /\ p.attackerReentersFunction.v[1] \notin validFnNames(i)
        inp == IF clear
                 THEN [p EXCEPT !.needsAttacker = FALSE,
                                !.attackerReentersFunction = JsUndef]
                 ELSE p
    IN [raised |-> FALSE, out |-> [inp EXCEPT !.tests = JsOk(tests)], inp |-> inp]

(***************************************************************************)
(* The plans and interfaces of the validatePlan experiments                *)
(***************************************************************************)
FnSigs ==
  { [name |-> "f", mutability |-> "payable"],
    [name |-> "f", mutability |-> "nonpayable"] }

Ifaces == [name : {"Bank"}, functions : SeqsUpTo(FnSigs, MaxFns)]

\* interface CallStep {as, call, args?, value?}
CallStep(as, call, value) ==
  [as |-> as, call |-> call, args |-> JsUndef, value |-> value]

\* CallSteps: f is declared by some interfaces, h by none; a value is tried
\* on the calls that can keep one.
Steps ==
  [as : {"user", "attacker_contract"}, call : {"f"}, args : {JsUndef},
   value : {JsUndef, JsOk(<<"1 ether">>)}]
  \cup [as : {"user", "attacker_contract"}, call : {"h"}, args : {JsUndef},
        value : {JsUndef}]
  \cup [as : {"attacker_contract"}, call : {"attack"}, args : {JsUndef},
        value : {JsUndef, JsOk(<<"1 ether">>)}]
  \cup [as : {"user"}, call : {"attack"}, args : {JsUndef}, value : {JsUndef}]

BalanceExpr == <<"address(target).balance">>
CallExpr(id) == <<"target.", id, "(", ")">>

\* interface Assertion {type, left, right?, message?}
Assertion(type, left, right) ==
  [type |-> type, left |-> left, right |-> right, message |-> JsUndef]

Assertions ==
  { Assertion("assertTrue", JsOk(BalanceExpr), JsUndef),
    Assertion("assertTrue", JsOk(CallExpr("f")), JsUndef),
    Assertion("assertTrue", JsOk(CallExpr("h")), JsUndef),
    Assertion("assertEq", JsOk(BalanceExpr), JsOk(CallExpr("h"))) }

TestNames == {<<"t", "e", "s", "t", "A">>, <<"a", "b">>}

\* The tests with exactly k steps and assertions.
TestPlansOfSize(k) ==
  UNION { [name : {JsOk(n) : n \in TestNames},
           description : {JsUndef},
           setup : {JsOk(x) : x \in [1..ab[1] -> Steps]},
           attack : {JsOk(x) : x \in [1..ab[2] -> Steps]},
           assertions : {JsOk(x) : x \in [1..(k - ab[1] - ab[2]) -> Assertions]}]
          : ab \in {c \in (0..k) \X (0..k) : c[1] + c[2] <= k} }

\* The lists of tests of total size at most b: a test counts 1 plus the
\* number of its steps and assertions.
RECURSIVE TestListsWithin(_)
TestListsWithin(b) ==
  IF b <= 0 THEN {<<>>}
  ELSE {<<>>} \cup
       UNION { {<<t>> \o r : t \in TestPlansOfSize(k), r \in TestListsWithin(b - 1 - k)}
               : k \in 0..(b - 1) }

\* Plans of the declared type AttackPlan.
TypedPlans ==
  [needsAttacker : BOOLEAN,
   attackerReentersFunction : {JsUndef, JsOk(<<"f">>)},
   tests : {JsOk(x) : x \in TestListsWithin(MaxPlanSize)}]

\* Plans as JSON.parse can deliver them: a field missing or of another type.
BaseTest ==
  [name |-> JsOk(<<"a", "b">>),
   description |-> JsUndef,
   setup |-> JsOk(<<>>),
   attack |-> JsOk(<<CallStep("user", "f", JsUndef)>>),
   assertions |-> JsOk(<<Assertion("assertTrue", JsOk(BalanceExpr), JsUndef)>>)]

UntypedTests ==
  { [BaseTest EXCEPT !.name = JsUndef],
    [BaseTest EXCEPT !.name = JsBad],
    [BaseTest EXCEPT !.setup = JsUndef],
    [BaseTest EXCEPT !.attack = JsBad],
    [BaseTest EXCEPT !.assertions = JsUndef],
    [BaseTest EXCEPT !.assertions = JsOk(<<Assertion("assertTrue", JsUndef, JsUndef)>>)],
    [BaseTest EXCEPT !.assertions = JsOk(<<Assertion("assertEq", JsOk(BalanceExpr), JsBad)>>)],
    [BaseTest EXCEPT !.assertions =
       JsOk(<<Assertion("assertEq", JsOk(CallExpr("h")), JsBad)>>)] }

UntypedPlans ==
  {[needsAttacker |-> FALSE, attackerReentersFunction |-> JsUndef, tests |-> x] :
     x \in {JsUndef, JsBad} \cup {JsOk(<<t>>) : t \in UntypedTests}}

\* Typed plans outside the enumeration: an empty test name, an empty value,
\* a test with three assertions.
EdgePlans ==
  {[needsAttacker |-> TRUE, attackerReentersFunction |-> JsOk(<<"h">>), tests |-> JsOk(<<t>>)] :
     t \in { [BaseTest EXCEPT !.name = JsOk(<<>>)],
             [BaseTest EXCEPT !.name = JsOk(<<"t", "e", "s">>)],
             [BaseTest EXCEPT !.attack =
                JsOk(<<CallStep("user", "f", JsOk(<<"">>))>>)],
             [BaseTest EXCEPT !.assertions =
                JsOk(<<Assertion("assertEq", JsOk(BalanceExpr), JsOk(BalanceExpr)),
                       Assertion("assertEq", JsOk(BalanceExpr), JsOk(CallExpr("h"))),
                       Assertion("assertTrue", JsOk(CallExpr("f")), JsUndef)>>)] }}

InitPlan ==
  /\ plan \in TypedPlans \cup EdgePlans \cup UntypedPlans
  /\ iface \in Ifaces
  /\ vout = <<>>
  /\ vout2 = <<>>
  /\ pstep = 0
  /\ source = <<>>
  /\ genCode = <<>>
  /\ useDocker = TRUE
  /\ needsOz = FALSE
  /\ RunnerStart
  /\ CmdIdle
  /\ NormIdle

\* const validated = validatePlan(plan, iface)
Validate ==
  /\ pstep = 0
  /\ iface # <<>>
  /\ vout' = validatePlan(plan, iface)
  /\ plan' = vout'.inp
  /\ pstep' = 1
  /\ UNCHANGED <<iface, vout2, source, genCode, runnerVars, cmdVars, normVars>>

\* validatePlan(validated, iface): the validator applied to its own result
Revalidate ==
  /\ pstep = 1
  /\ ~vout.raised
  /\ vout2' = validatePlan(vout.out, iface)
  /\ pstep' = 2
  /\ UNCHANGED <<plan, iface, vout, source, genCode, runnerVars, cmdVars, normVars>>

NextPlan == Validate \/ Revalidate

SpecPlan == InitPlan /\ [][NextPlan]_vars

(***************************************************************************)
(* Properties of the Plan Validator                                        *)
(***************************************************************************)

\* The CallSteps of the setup and attack lists of the tests of a plan.
StepsOf(p) ==
  UNION {{p.tests.v[n].setup.v[m] : m \in DOMAIN p.tests.v[n].setup.v}
           \cup {p.tests.v[n].attack.v[m] : m \in DOMAIN p.tests.v[n].attack.v}
         : n \in DOMAIN p.tests.v}

Validated == pstep >= 1 /\ ~vout.raised

\* C4: every CallStep of a plan returned by validatePlan calls a function of
\* iface.functions, or is the reserved call 'attack' by attacker_contract.
C4_OnlyInterfaceCalls ==
  Validated =>
    \A st \in StepsOf(vout.out) :
      \/ st.call \in validFnNames(iface)
      \/ (st.call = "attack" /\ st.as = "attacker_contract")

\* A plan with a step by attacker_contract that calls an undeclared function
\* was validated, and another step of it survived.
C4_Witness ==
  /\ Validated
  /\ \E st \in StepsOf(plan) :
       st.as = "attacker_contract" /\ st.call = "h" /\ st \notin StepsOf(vout.out)
  /\ StepsOf(vout.out) # {}

\* C5: validatePlan is idempotent: applied to the plan it returned it does
\* not throw and returns an equal plan.
C5_Idempotent ==
  pstep = 2 => (~vout2.raised /\ vout2.out = vout.out)

\* The first validation changed the plan (renamed a test and dropped or
\* changed a step or an assertion) and the second was applied to the result.
C5_Witness ==
  /\ pstep = 2
  /\ vout.out.tests.v # <<>>
  /\ \E n \in DOMAIN plan.tests.v :
       /\ ~startsWithTest(plan.tests.v[n].name.v)
       /\ plan.tests.v[n].assertions.v # <<>>
  /\ \A n \in DOMAIN vout.out.tests.v : vout.out.tests.v[n].assertions.v = <<>>

\* C6: validatePlan never raises, whatever the plan value.
C6_NeverRaises == pstep >= 1 => ~vout.raised

\* C12: in a plan returned by validatePlan a CallStep carries a value only
\* when the function its call names is payable, for every actor and also
\* when several functions of the interface have that name: each of them is
\* payable.  (The reserved call 'attack' of attacker_contract names
\* Attacker.attack, which the template declares payable.)
C12_ValueOnlyOnPayable ==
  Validated =>
    \A st \in StepsOf(vout.out) :
      (Truthy(st.value) /\ ~(st.as = "attacker_contract" /\ st.call = "attack")) =>
        \A n \in DOMAIN iface.functions :
          iface.functions[n].name = st.call => iface.functions[n].mutability = "payable"

(***************************************************************************)
(* Interface Extractor: parseContractInterface (patchGenerator.ts)         *)
(*                                                                         *)
(* A source text is the sequence of its top-level units (contracts,        *)
(* interfaces, libraries).  A unit has a name, an optional constructor,    *)
(* function declarations and state-variable declarations.  The text that   *)
(* the regular expressions capture is a sequence of words: quals is the    *)
(* text between the ")" of the parameter list and the "{" or ";" of a      *)
(* function declaration, a comment in that place included.  The functions  *)
(* of the model's sources take no parameters.                              *)
(***************************************************************************)

\* /\bw\b/.test(text)
HasWord(text, w) == \E n \in DOMAIN text : text[n] = w

\* parseMutability(sig)
parseMutability(sig) ==
  IF /\ HasWord(sig, "payable") /\ ~HasWord(sig, "nonpayable")
     /\ ~HasWord(sig, "view") /\ ~HasWord(sig, "pure")
    THEN "payable"
  ELSE IF HasWord(sig, "view") THEN "view"
  ELSE IF HasWord(sig, "pure") THEN "pure"
  ELSE "nonpayable"

\* if (/\bprivate\b/.test(qualifiers) || /\binternal\b/.test(qualifiers)) continue
skipped(qualifiers) == HasWord(qualifiers, "private") \/ HasWord(qualifiers, "internal")

\* The FunctionSig entries pushed for the matches of fnRegex in a list of
\* function declarations.
RECURSIVE fnMatches(_)
fnMatches(fns) ==
  IF fns = <<>> THEN <<>>
  ELSE (IF skipped(Head(fns).quals) THEN <<>>
        ELSE <<[name |-> Head(fns).name,
                mutability |-> parseMutability(Head(fns).quals)]>>)
       \o fnMatches(Tail(fns))

\* fnRegex runs over the whole source text: the declarations of every unit.
RECURSIVE allFns(_)
allFns(src) ==
  IF src = <<>> THEN <<>> ELSE Head(src).fns \o allFns(Tail(src))

RECURSIVE allVars(_)
allVars(src) ==
  IF src = <<>> THEN <<>> ELSE Head(src).vars \o allVars(Tail(src))

\* varRegex: a getter is pushed for each state variable declared public,
\* unless functions already has an entry of that name.
RECURSIVE withGetters(_, _)
withGetters(functions, vs) ==
  IF vs = <<>> THEN functions
  ELSE IF ~Head(vs).public
          \/ \E n \in DOMAIN functions : functions[n].name = Head(vs).name
    THEN withGetters(functions, Tail(vs))
    ELSE withGetters(Append(functions, [name |-> Head(vs).name, mutability |-> "view"]),
                     Tail(vs))

\* source.match(/\bcontract\s+(\w+)/): the name of the first unit declared
\* with the keyword contract, 'Unknown' when there is none.
contractName(src) ==
  IF \E n \in DOMAIN src : src[n].kind = "contract"
    THEN src[CHOOSE n \in DOMAIN src :
               /\ src[n].kind = "contract"
               /\ \A m \in DOMAIN src : src[m].kind = "contract" => n <= m].name
    ELSE "Unknown"

\* source.match(/constructor\s*\(([^)]*)\)[^{]*/): the first constructor of the
\* text; constructorPayable = /\bpayable\b/.test(ctorMatch[0])
constructorPayable(src) ==
  /\ \E n \in DOMAIN src : src[n].ctor # None
  /\ LET first == CHOOSE n \in DOMAIN src :
                    /\ src[n].ctor # None
                    /\ \A m \in DOMAIN src : src[m].ctor # None => n <= m
     IN HasWord(src[first].ctor[1], "payable")

\* parseContractInterface(source)
parseContractInterface(src) ==
  [name |-> contractName(src),
   constructorPayable |-> constructorPayable(src),
   functions |-> withGetters(fnMatches(allFns(src)), allVars(src))]

(***************************************************************************)
(* Test Synthesizer: generateSolidityFromPlan (patchGenerator.ts)          *)
(*                                                                         *)
(* A text is a sequence of tokens.  Every brace is a token of its own, and *)
(* so are "target." (a member access on the target instance), the member   *)
(* name that follows it and "(".  A string of the plan is spliced into the *)
(* text as the tokens it consists of.                                      *)
(***************************************************************************)

\* args.join(', ')
RECURSIVE Join(_)
Join(args) ==
  IF args = <<>> THEN <<>>
  ELSE IF Len(args) = 1 THEN <<args[1]>>
  ELSE <<args[1], ", ">> \o Join(Tail(args))

\* const argsStr = step.args?.join(', ') ?? ''
argsStr(step) == IF step.args.k = "ok" THEN Join(step.args.v) ELSE <<>>

\* const valueStr = step.value ? `{value: ${step.value}}` : ''
valueStr(step) ==
  IF Truthy(step.value) THEN <<"{", "value: ">> \o step.value.v \o <<"}">> ELSE <<>>

\* const caller = step.as === 'owner' ? 'owner' : step.as === 'thief' ? 'thief' : 'user'
caller(step) ==
  IF step.as = "owner" THEN "owner" ELSE IF step.as = "thief" THEN "thief" ELSE "user"

\* generateCallCode(step, iface)
generateCallCode(step, i) ==
  IF step.as = "attacker_contract"
    THEN IF step.call = "attack"
      THEN <<"attacker.", "attack">> \o valueStr(step) \o <<"(", ")", ";">>
      ELSE <<"attacker.", "attackCustom">> \o valueStr(step) \o <<"(", ")", ";">>
    ELSE <<"vm.prank(", caller(step), ")", ";", "target.", step.call>>
           \o valueStr(step) \o <<"(">> \o argsStr(step) \o <<")", ";">>

\* `${a.right}`: an absent right operand is rendered as the text undefined
rightStr(a) == IF a.right.k = "ok" THEN a.right.v ELSE <<"undefined">>

\* const msg = a.message ? `, "${a.message}"` : ''
msgStr(a) == IF Truthy(a.message) THEN <<", \"">> \o a.message.v \o <<"\"">> ELSE <<>>

\* generateAssertionCode(a)
generateAssertionCode(a) ==
  IF a.type \in {"assertEq", "assertLt", "assertGt"}
    THEN <<a.type, "(">> \o a.left.v \o <<", ">> \o rightStr(a) \o msgStr(a) \o <<")", ";">>
    ELSE <<"assertTrue", "(">> \o a.left.v \o msgStr(a) \o <<")", ";">>

\* iface.functions.find((f) => f.name === name): the first of that name, or None
findFn(i, name) ==
  IF \E n \in DOMAIN i.functions : i.functions[n].name = name
    THEN Some(i.functions[CHOOSE n \in DOMAIN i.functions :
                 /\ i.functions[n].name = name
                 /\ \A m \in DOMAIN i.functions : i.functions[m].name = name => n <= m])
    ELSE None

\* generateAttackerContract(iface, reentersFunction)
generateAttackerContract(i, reentersFunction) ==
  LET fn == findFn(i, reentersFunction[1])
      valueSnippet == IF fn # None /\ fn[1].mutability = "payable"
                        THEN <<"{", "value: 1 ether", "}">> ELSE <<>>
      hasDeposit == \E n \in DOMAIN i.functions :
                      i.functions[n].name = "deposit" /\ i.functions[n].mutability = "payable"
      depositLine == IF hasDeposit
                       THEN <<"target.", "deposit", "{", "value: msg.value", "}", "(", ")", ";">>
                       ELSE <<>>
      reenter == <<"target.">> \o reentersFunction \o valueSnippet \o <<"(", ")", ";">>
  IN <<"contract", "Attacker", "{",
       i.name, " public immutable target;", "uint256 public count;",
       "constructor(address payable _target)", "{",
       "target = ", i.name, "(payable(_target));", "}",
       "function attack() external payable", "{">> \o depositLine \o reenter \o <<"}",
       "receive() external payable", "{",
       "if (count < 5 && address(target).balance >= 1 ether)", "{",
       "count++;">> \o reenter \o <<"}", "}",
       "fallback() external payable", "{", "}", "}">>

\* generateSetUp(iface, needsAttacker)
generateSetUp(i, needsAttacker) ==
  <<"function setUp() public", "{", "vm.deal(owner, 100 ether);",
    "vm.deal(user, 100 ether);", "vm.deal(thief, 100 ether);", "vm.prank(owner);",
    "target = new ", i.name>>
  \o (IF i.constructorPayable THEN <<"{", "value: 1 ether", "}">> ELSE <<>>)
  \o <<"(", ")", ";">>
  \o (IF needsAttacker
        THEN <<"attacker = new Attacker(payable(address(target)));",
               "vm.deal(address(attacker), 10 ether);">>
        ELSE <<>>)
  \o <<"}">>

RECURSIVE callLines(_, _)
callLines(steps, i) ==
  IF steps = <<>> THEN <<>>
  ELSE generateCallCode(Head(steps), i) \o callLines(Tail(steps), i)

RECURSIVE assertionLines(_)
assertionLines(as) ==
  IF as = <<>> THEN <<>>
  ELSE generateAssertionCode(Head(as)) \o assertionLines(Tail(as))

\* generateTestFunction(test, iface)
generateTestFunction(test, i) ==
  <<"function ">> \o test.name.v \o <<"() public ", "{">>
  \o (IF Truthy(test.description) THEN <<"// ">> \o test.description.v ELSE <<>>)
  \o callLines(test.setup.v, i)
  \o callLines(test.attack.v, i)
  \o assertionLines(test.assertions.v)
  \o <<"}">>

RECURSIVE testFunctions(_, _)
testFunctions(tests, i) ==
  IF tests = <<>> THEN <<>>
  ELSE generateTestFunction(Head(tests), i) \o testFunctions(Tail(tests), i)

\* generateSolidityFromPlan(plan, iface)
generateSolidityFromPlan(p, i) ==
  LET withAttacker == p.needsAttacker /\ Truthy(p.attackerReentersFunction)
  IN <<"// SPDX-License-Identifier: MIT", "pragma solidity ^0.8.20;",
       "import \"forge-std/Test.sol\";", "import \"../src/", i.name, ".sol\";">>
     \o (IF withAttacker
           THEN generateAttackerContract(i, p.attackerReentersFunction.v) ELSE <<>>)
     \o <<"contract", i.name, "Test is Test", "{", i.name, " public target;">>
     \o (IF withAttacker THEN <<"Attacker public attacker;">> ELSE <<>>)
     \o <<"address public owner = address(0x1);", "address public user = address(0x2);",
          "address public thief = address(0x3);">>
     \o generateSetUp(i, withAttacker)
     \o testFunctions(p.tests.v, i)
     \o <<"}">>

(***************************************************************************)
(* The sources and plans of the extraction and synthesis experiments       *)
(***************************************************************************)

\* Largest number of function declarations of the target contract.
MaxDecls == 2

FnDecl(name, quals) == [name |-> name, quals |-> quals]
VarDecl(name, public) == [name |-> name, public |-> public]
Unit(kind, name, ctor, fns, vs) ==
  [kind |-> kind, name |-> name, ctor |-> ctor, fns |-> fns, vars |-> vs]

\* Declarations of the target contract.  The last carries a comment between
\* its qualifiers and its body: function f() external // internal accounting
FnDecls ==
  { FnDecl("f", <<"public">>),
    FnDecl("f", <<"external", "payable">>),
    FnDecl("f", <<"private">>),
    FnDecl("h", <<"internal", "view">>),
    FnDecl("f", <<"external", "//", "internal", "accounting">>) }

TargetUnits ==
  { Unit("contract", "Bank", c, fns, vs) :
      c \in {None, Some(<<"payable">>)},
      fns \in SeqsUpTo(FnDecls, MaxDecls),
      vs \in {<<>>, <<VarDecl("g", TRUE)>>, <<VarDecl("f", TRUE)>>, <<VarDecl("g", FALSE)>>} }

\* A second unit of the same file: an interface, a library or a contract.
OtherUnits ==
  { Unit(k, "Other", None, fns, <<>>) :
      k \in {"interface", "library", "contract"},
      fns \in {<<>>, <<FnDecl("h", <<"external">>)>>} }

Sources ==
  {<<t>> : t \in TargetUnits}
  \cup {<<t, o>> : t \in TargetUnits, o \in OtherUnits}
  \cup {<<o, t>> : t \in TargetUnits, o \in {u \in OtherUnits : u.kind # "contract"}}

\* Sources whose function declarations have a returns clause or a modifier:
\*   function owner() external returns (address payable)
\*   function owner() external view returns (address payable)
\*   function g() public onlyOwner returns (uint256)
ReturnSources ==
  { <<Unit("contract", "Bank", None, <<FnDecl(d[1], d[2])>>, <<>>)>> :
      d \in { <<"owner", <<"external", "returns", "(", "address", "payable", ")">>>>,
              <<"owner", <<"external", "view", "returns", "(", "address", "payable", ")">>>>,
              <<"g", <<"public", "onlyOwner", "returns", "(", "uint256", ")">>>> } }

\* The sources the plans are rendered against.
GenSources ==
  { <<Unit("contract", "Bank", None, <<FnDecl("f", <<"public">>)>>, <<>>)>>,
    <<Unit("contract", "Bank", None, <<FnDecl("f", <<"external", "payable">>)>>, <<>>)>>,
    <<Unit("contract", "Bank", None,
           <<FnDecl("f", <<"public">>), FnDecl("f", <<"external", "payable">>)>>, <<>>)>>,
    <<Unit("interface", "Other", None, <<FnDecl("h", <<"external">>)>>, <<>>),
      Unit("contract", "Bank", None, <<FnDecl("f", <<"external", "payable">>)>>, <<>>)>>,
    <<Unit("contract", "Bank", Some(<<"payable">>),
           <<FnDecl("deposit", <<"external", "payable">>), FnDecl("f", <<"public">>)>>,
           <<VarDecl("g", TRUE)>>)>> }

\* Plans whose strings carry braces, arguments, a description or a message.
InjectTests ==
  { [BaseTest EXCEPT !.name = JsOk(<<"t", "e", "s", "t", "{">>)],
    [BaseTest EXCEPT !.description = JsOk(<<"drain">>)],
    [BaseTest EXCEPT !.description = JsOk(<<"}">>)],
    [BaseTest EXCEPT !.attack =
       JsOk(<<[CallStep("user", "f", JsUndef) EXCEPT !.args = JsOk(<<"1", "2">>)]>>)],
    [BaseTest EXCEPT !.attack =
       JsOk(<<[CallStep("user", "f", JsUndef) EXCEPT !.args = JsOk(<<"}">>)]>>)],
    [BaseTest EXCEPT !.attack = JsOk(<<CallStep("user", "f", JsOk(<<"1", "}">>))>>)],
    [BaseTest EXCEPT !.assertions =
       JsOk(<<Assertion("assertTrue", JsOk(<<"{">>), JsUndef)>>)],
    [BaseTest EXCEPT !.assertions =
       JsOk(<<[Assertion("assertGt", JsOk(BalanceExpr), JsOk(<<"0">>))
                 EXCEPT !.message = JsOk(<<"drained", "}">>)]>>)] }

InjectPlans ==
  {[needsAttacker |-> TRUE, attackerReentersFunction |-> JsOk(<<"f">>), tests |-> JsOk(<<t>>)] :
     t \in InjectTests}

\* The plan of the experiments that vary the source.
BasePlan ==
  [needsAttacker |-> TRUE, attackerReentersFunction |-> JsOk(<<"f">>),
   tests |-> JsOk(<<BaseTest>>)]

\* Plans of two tests: the steps of one test call only h, a function that
\* the sources of GenSources either do not declare or declare in another
\* unit; the other test calls f, and h or the reserved attack.
DropPlans ==
  {[needsAttacker |-> TRUE, attackerReentersFunction |-> JsOk(<<"f">>),
    tests |-> JsOk(<<[BaseTest EXCEPT !.attack = JsOk(<<CallStep("user", "h", JsUndef)>>)],
                     [BaseTest EXCEPT !.name = JsOk(<<"t", "e", "s", "t", "A">>),
                                      !.setup = JsOk(<<CallStep("user", "f", JsUndef)>>),
                                      !.attack = JsOk(<<st>>)]>>)] :
     st \in {CallStep("user", "h", JsUndef),
             CallStep("attacker_contract", "attack", JsUndef),
             CallStep("user", "f", JsOk(<<"1 ether">>))}}

InitGen ==
  /\ \/ source \in Sources \cup ReturnSources /\ plan = BasePlan
     \/ /\ source \in GenSources
        /\ plan \in TypedPlans \cup EdgePlans \cup InjectPlans \cup DropPlans
  /\ iface = <<>>
  /\ vout = <<>>
  /\ vout2 = <<>>
  /\ pstep = 0
  /\ genCode = <<>>
  /\ useDocker = TRUE
  /\ needsOz = FALSE
  /\ RunnerStart
  /\ CmdIdle
  /\ NormIdle

\* const iface = parseContractInterface(contractSource)
Parse ==
  /\ pstep = 0
  /\ iface = <<>>
  /\ source # <<>>
  /\ iface' = parseContractInterface(source)
  /\ UNCHANGED <<plan, vout, vout2, pstep, source, genCode, runnerVars, cmdVars, normVars>>

\* const code = generateSolidityFromPlan(validated, iface)
Synthesize ==
  /\ pstep = 1
  /\ ~vout.raised
  /\ genCode' = generateSolidityFromPlan(vout.out, iface)
  /\ pstep' = 3
  /\ UNCHANGED <<plan, iface, vout, vout2, source, runnerVars, cmdVars, normVars>>

\* generateSolidityFromPlan(plan, iface) on a plan that was not validated
SynthesizeDirect ==
  /\ pstep = 0
  /\ iface # <<>>
  /\ genCode' = generateSolidityFromPlan(plan, iface)
  /\ pstep' = 4
  /\ UNCHANGED <<plan, iface, vout, vout2, source, runnerVars, cmdVars, normVars>>

NextGen == Parse \/ Validate \/ Synthesize \/ SynthesizeDirect

SpecGen == InitGen /\ [][NextGen]_vars

(***************************************************************************)
(* Properties of the Interface Extractor and the Test Synthesizer          *)
(***************************************************************************)

\* Number of occurrences of a token in a text.
Count(text, tok) == Cardinality({n \in DOMAIN text : text[n] = tok})

\* Positions of the declarations `contract <name>Test is Test`.
TestContractDecls(text) ==
  {n \in 1..(Len(text) - 2) : text[n] = "contract" /\ text[n + 2] = "Test is Test"}

\* Positions where a test function is declared.
TestFunctionDecls(text) == {n \in DOMAIN text : text[n] = "function "}

Rendered == pstep = 3

\* C13: the text generateSolidityFromPlan renders from a validated plan has
\* as many '{' as '}' and exactly one test-suffixed contract declaration,
\* which holds one test function per surviving TestPlan, whatever strings
\* the plan carries in args, value, test name, description and assertions.
C13_BalancedOneTestContract ==
  Rendered =>
    /\ Count(genCode, "{") = Count(genCode, "}")
    /\ Cardinality(TestContractDecls(genCode)) = 1
    /\ Cardinality(TestFunctionDecls(genCode)) = Len(vout.out.tests.v)

\* Positions of the calls on the target instance that carry a value clause:
\* target.<member>{value: ...}(
ValueCalls(text) ==
  {n \in 1..(Len(text) - 2) : text[n] = "target." /\ text[n + 2] = "{"}

\* C14: in a text generateSolidityFromPlan has rendered, from a validated
\* plan or from a plan as given, a call on the target carries a value clause
\* only when the interface declares the called function payable.
C14_ValueClauseOnlyOnPayable ==
  pstep \in {3, 4} =>
    \A n \in ValueCalls(genCode) :
      \E k \in DOMAIN iface.functions :
        /\ iface.functions[k].name = genCode[n + 1]
        /\ iface.functions[k].mutability = "payable"

\* The declared visibility of a function declaration: the first word after
\* its parameter list.
Visibility(d) == d.quals[1]

\* The methods that can be called on an instance of the contract of a given
\* name: its public and external functions and the getters of its public
\* state variables.
TargetMethods(src, name) ==
  UNION { {src[u].fns[d].name : d \in {e \in DOMAIN src[u].fns :
                                         Visibility(src[u].fns[e]) \in {"public", "external"}}}
          \cup {src[u].vars[v].name : v \in {w \in DOMAIN src[u].vars : src[u].vars[w].public}}
        : u \in {x \in DOMAIN src : src[x].kind = "contract" /\ src[x].name = name} }

\* Positions of the member accesses on the target instance.
TargetCalls(text) == {n \in 1..(Len(text) - 1) : text[n] = "target."}

\* C16: every call on the target instance in the text rendered from
\* parseContractInterface, validatePlan and generateSolidityFromPlan names a
\* method that the contract of the interface's name declares, whatever
\* other units the source declares.
C16_CallsOnlyTargetMethods ==
  (Rendered /\ source # <<>>) =>
    \A n \in TargetCalls(genCode) : genCode[n + 1] \in TargetMethods(source, iface.name)

\* The functions a source declares public or external, in any of its units.
DeclaredNonPrivate(src) ==
  UNION { {src[u].fns[d].name : d \in {e \in DOMAIN src[u].fns :
                                         Visibility(src[u].fns[e]) \in {"public", "external"}}}
        : u \in DOMAIN src }

\* C17: for a source that declares at least one non-private function, the
\* functions parseContractInterface returns include every function the
\* source declares public or external.
C17_ExtractsEveryNonPrivate ==
  (source # <<>> /\ iface # <<>>) =>
    DeclaredNonPrivate(source) \subseteq validFnNames(iface)

\* The name of the test function declared at position n of a text: the
\* tokens between "function " and the next "() public ".
FnNameAt(text, n) ==
  LET m == CHOOSE j \in (n + 1)..Len(text) :
             /\ text[j] = "() public "
             /\ \A k \in (n + 1)..(j - 1) : text[k] # "() public "
  IN SubSeq(text, n + 1, m - 1)

\* The names of the test functions of a text, in order.
RECURSIVE namesFrom(_, _)
namesFrom(text, n) ==
  IF n > Len(text) THEN <<>>
  ELSE (IF text[n] = "function " THEN <<FnNameAt(text, n)>> ELSE <<>>)
       \o namesFrom(text, n + 1)

\* A step is declared: its call is a function of the interface.
Declared(st, i) == st.call \in validFnNames(i)

\* A step is declared or is the reserved call 'attack' of attacker_contract.
DeclaredOrReserved(st, i) ==
  Declared(st, i) \/ (st.as = "attacker_contract" /\ st.call = "attack")

\* The actor and call of each step of a list.
Calls(steps) == [n \in DOMAIN steps |-> <<steps[n].as, steps[n].call>>]

\* validatePlan keeps of each list of steps exactly the steps that satisfy
\* Keep, in order; it drops exactly the tests that keep no step; and the
\* rendered text declares one test function for each surviving test, in
\* order and under its name, and none for a dropped test.
DropsBy(Keep(_, _)) ==
  Rendered =>
    LET kept(steps) == SelectSeq(steps, LAMBDA st : Keep(st, iface))
        survivors == SelectSeq(plan.tests.v,
                       LAMBDA t : kept(t.setup.v) # <<>> \/ kept(t.attack.v) # <<>>)
        out == vout.out.tests.v
    IN /\ Len(out) = Len(survivors)
       /\ \A k \in DOMAIN out :
            /\ Calls(out[k].setup.v) = Calls(kept(survivors[k].setup.v))
            /\ Calls(out[k].attack.v) = Calls(kept(survivors[k].attack.v))
       /\ namesFrom(genCode, 1) = [k \in DOMAIN out |-> out[k].name.v]
       /\ \A k \in DOMAIN out : out[k].name.v = normalizeName(survivors[k].name.v)

\* C18 as stated: validatePlan drops every step whose call is not declared
\* in the interface and drops a test exactly when its setup and attack are
\* both empty after that; a dropped test has no function in the rendered
\* text and every surviving test has one.
C18_DropsEveryUndeclared == DropsBy(Declared)

\* C18: validatePlan drops every step whose call is not declared in the
\* interface, except the reserved call 'attack' of attacker_contract, and
\* drops a test exactly when its setup and attack are both empty after
\* that; a dropped test has no function in the rendered text and every
\* surviving test has one.
C18_DropsUndeclaredKeepsReserved == DropsBy(DeclaredOrReserved)

\* A plan of two tests was validated and rendered: the test whose only step
\* called an undeclared function was dropped, the other lost a step and has
\* the only test function of the text.
C18_Witness ==
  /\ Rendered
  /\ Len(plan.tests.v) = 2
  /\ Len(vout.out.tests.v) = 1
  /\ plan.tests.v[1].attack.v # <<>>
  /\ Len(vout.out.tests.v[1].attack.v) < Len(plan.tests.v[2].attack.v)
  /\ Cardinality(TestFunctionDecls(genCode)) = 1

\* The state mutability keywords a declaration states: those among its
\* qualifiers, before its returns clause and before a comment.
StatedMutability(quals) ==
  {quals[n] : n \in {m \in DOMAIN quals :
      /\ quals[m] \in {"payable", "view", "pure"}
      /\ \A j \in 1..m : quals[j] \notin {"returns", "//"}}}

\* The function declarations of a source with a given name.
DeclsNamed(src, name) ==
  UNION { {src[u].fns[d] : d \in {e \in DOMAIN src[u].fns : src[u].fns[e].name = name}}
        : u \in DOMAIN src }

\* C27: a function that is declared without a state mutability keyword is
\* classified nonpayable: an entry of the interface whose name is declared
\* by function declarations only, none of which states payable, view or
\* pure, has mutability nonpayable, whatever else the declarations carry.
C27_NoKeywordIsNonpayable ==
  (source # <<>> /\ iface # <<>>) =>
    \A n \in DOMAIN iface.functions :
      LET name == iface.functions[n].name IN
      (/\ DeclsNamed(source, name) # {}
       /\ \A d \in DeclsNamed(source, name) : StatedMutability(d.quals) = {}
       /\ \A u \in DOMAIN source : \A v \in DOMAIN source[u].vars :
            source[u].vars[v].name # name)
      => iface.functions[n].mutability = "nonpayable"

\* Positions of the calls through the attacker instance in a text.
AttackerCalls(text) == {n \in 1..(Len(text) - 1) : text[n] = "attacker."}

\* The text declares the contract Attacker / the instance attacker.
DeclaresAttackerContract(text) ==
  \E n \in 1..(Len(text) - 1) : text[n] = "contract" /\ text[n + 1] = "Attacker"
DeclaresAttackerInstance(text) ==
  \E n \in DOMAIN text : text[n] = "Attacker public attacker;"

\* The functions that can be called on the Attacker helper of a text: its
\* function attack and the getters of its public variables.
AttackerDefines(text) ==
  IF \E n \in DOMAIN text : text[n] = "function attack() external payable"
    THEN {"attack", "count", "target"} ELSE {}

\* C29: in the text rendered from a validated plan, every call through the
\* attacker instance is made in a text that declares the contract Attacker
\* and the instance attacker, and calls a function the Attacker helper
\* defines.
C29_AttackerCallsDeclared ==
  Rendered =>
    \A n \in AttackerCalls(genCode) :
      /\ DeclaresAttackerContract(genCode)
      /\ DeclaresAttackerInstance(genCode)
      /\ genCode[n + 1] \in AttackerDefines(genCode)

(***************************************************************************)
(* Properties of the assertion filter of validatePlan (SpecPlan)           *)
(***************************************************************************)

\* The occurrences of target.<identifier>( in an expression whose identifier
\* is no function name of the interface.
UnknownCalls(expr, i) ==
  {n \in 1..(Len(expr) - 2) :
     /\ expr[n] = "target."
     /\ expr[n + 2] = "("
     /\ expr[n + 1] \notin validFnNames(i)}

\* An operand of the assertion has such an occurrence.
RefersUnknown(a, i) ==
  \/ UnknownCalls(a.left.v, i) # {}
  \/ (a.right.k = "ok" /\ UnknownCalls(a.right.v, i) # {})

\* The operands of the assertion are only the balance expression.
BalanceOnly(a) ==
  /\ a.left = JsOk(BalanceExpr)
  /\ a.right \in {JsUndef, JsOk(BalanceExpr)}

C26_InputsUnchanged == [][plan' = plan /\ iface' = iface]_vars

(***************************************************************************)
(* Normalization of the test source: writeTempProject and the rewrite of   *)
(* the test file after a fixer reply (simulationService.ts).               *)
(*                                                                         *)
(* A text is a sequence of items: the braces "{" and "}", the semicolon,   *)
(* the newline (white space), "x" (any other run of characters), and       *)
(* SrcImport, a whole statement import "../src/<file>.sol";                *)
(***************************************************************************)

\* Largest number of items of a test source.
MaxText == 4

SrcImport == "import \"../src/\";"
ForgeStdImport == "import \"forge-std/Test.sol\";"

TextItems == {"{", "}", ";", "\n", "x", SrcImport}
Texts == SeqsUpTo(TextItems, MaxText)

\* text.replace(/import\s+["']\.\.\/src\/[^"']+\.sol["']\s*;\s*\n?/g, ''):
\* every import of a ../src file goes, with the white space that follows it.
RECURSIVE stripSrcImports(_)
stripSrcImports(text) ==
  IF text = <<>> THEN <<>>
  ELSE IF Head(text) = SrcImport
    THEN LET rest == Tail(text)
             k == IF \E n \in DOMAIN rest : rest[n] # "\n"
                    THEN (CHOOSE n \in DOMAIN rest :
                            rest[n] # "\n" /\ \A m \in 1..(n - 1) : rest[m] = "\n")
                    ELSE Len(rest) + 1
         IN stripSrcImports(SubSeq(rest, k, Len(rest)))
    ELSE <<Head(text)>> \o stripSrcImports(Tail(text))

\* const pragmaEnd = text.indexOf(';'); if (pragmaEnd !== -1) the import of
\* the source file is put in after it.  conflict: the text declares a
\* contract of the source (hasConflict), and nothing is put in.
addSrcImport(text, conflict) ==
  IF conflict \/ \A n \in DOMAIN text : text[n] # ";" THEN text
  ELSE LET pe == CHOOSE n \in DOMAIN text :
                    text[n] = ";" /\ \A m \in 1..(n - 1) : text[m] # ";"
       IN SubSeq(text, 1, pe) \o <<"\n", SrcImport, "\n">>
            \o SubSeq(text, pe + 1, Len(text))

\* ensureForgeStdTestImport: a text that uses Test and does not import it
\* gets the import in front.
ensureForgeStdTestImport(text, usesTest) ==
  IF ~usesTest \/ \E n \in DOMAIN text : text[n] = ForgeStdImport THEN text
  ELSE <<ForgeStdImport, "\n">> \o text

\* fixCommonSolidityIssues rewrites constructor parameters, receive and
\* fallback declarations and makeAddr calls: runs of other characters by
\* runs of other characters, which leaves the items of a text as they are.
fixCommonSolidityIssues(text) == [n \in DOMAIN text |-> text[n]]

\* trimmed.replace(/\}\s*$/, ''): a closing brace at the end of the text,
\* with the white space after it, is taken off; any other text is unchanged.
trimClosing(text) ==
  IF \E n \in DOMAIN text :
       text[n] = "}" /\ \A m \in (n + 1)..Len(text) : text[m] = "\n"
    THEN LET k == CHOOSE n \in DOMAIN text :
                    text[n] = "}" /\ \A m \in (n + 1)..Len(text) : text[m] = "\n"
         IN SubSeq(text, 1, k - 1)
    ELSE text

\* for (let i = 0; i < close - open; i++) trimmed = trimmed.replace(...)
RECURSIVE trimTimes(_, _)
trimTimes(text, k) == IF k = 0 THEN text ELSE trimTimes(trimClosing(text), k - 1)

\* '}\n'.repeat(k)
RECURSIVE closers(_)
closers(k) == IF k = 0 THEN <<>> ELSE <<"}", "\n">> \o closers(k - 1)

\* balanceBraces(code)
balanceBraces(text) ==
  LET open == Count(text, "{")
      close == Count(text, "}")
  IN IF close > open THEN trimTimes(text, close - open)
     ELSE IF open > close THEN text \o <<"\n">> \o closers(open - close)
     ELSE text

\* A test source handed to the runner, nothing written yet.
InitNorm ==
  /\ testCode \in Texts
  /\ testFile = None
  /\ useDocker = TRUE
  /\ needsOz = FALSE
  /\ RunnerStart
  /\ PlanIdle
  /\ CmdIdle

\* writeTempProject, the test file: testCode is the test source of the request.
WriteTestFile ==
  /\ testFile = None
  /\ \E conflict \in BOOLEAN, usesTest \in BOOLEAN :
       testFile' =
         Some(balanceBraces(fixCommonSolidityIssues(ensureForgeStdTestImport(
                addSrcImport(stripSrcImports(testCode), conflict), usesTest))))
  /\ UNCHANGED <<testCode, runnerVars, planVars, cmdVars>>

\* runDockerFoundry / runLocalFoundry after a fixer reply: testCode is the
\* text aiFixTestCode returned.
RewriteTestFile ==
  /\ testFile = None
  /\ \E conflict \in BOOLEAN, usesTest \in BOOLEAN :
       testFile' =
         Some(balanceBraces(ensureForgeStdTestImport(fixCommonSolidityIssues(
                addSrcImport(stripSrcImports(testCode), conflict)), usesTest)))
  /\ UNCHANGED <<testCode, runnerVars, planVars, cmdVars>>

NextNorm == WriteTestFile \/ RewriteTestFile

SpecNorm == InitNorm /\ [][NextNorm]_vars

\* C23: the test source written to the workspace has as many opening as
\* closing braces, whatever the text handed in was.
C23_WrittenTestBalanced ==
  testFile # None => Count(testFile[1], "{") = Count(testFile[1], "}")

====
